---- MODULE Spec2Model ----
(***************************************************************************)
(* django-hashid-field: HashidDescriptor (descriptor.py) and the field     *)
(* classes of field.py, as a state machine.                                *)
(*                                                                         *)
(* Strings are sequences of symbols (naturals >= 1); the one-symbol        *)
(* sequence <<0>> stands for Python's None where a string is optional.     *)
(* Python values are records of one shape, told apart by their kind.       *)
(***************************************************************************)
EXTENDS Integers, Sequences, FiniteSets

VARIABLES
    field,      \* the field object: its configuration and what contribute_to_class set on it
    cls,        \* the model class's attributes: attname -> installed descriptor
    columns,    \* the storage columns the model class's own (non-virtual) fields allocated
    pk,         \* the column of the model's primary key (_meta.pk.column), "" while no pk is set
    lazy,       \* the SimpleLazyObject held in the proxy field's column
    inst,       \* the instance's __dict__: attname -> stored value
    written,    \* history: attname -> the value last assigned through the descriptor
    result      \* the outcome of the last operation

vars == <<field, cls, columns, pk, lazy, inst, written, result>>

----------------------------------------------------------------------------
(* Bounds of the model *)

\* ids are the multiples of MinAlphabet + 1 up to MaxId * (MinAlphabet + 1)
MaxId == 1
\* alphabets have between MinAlphabet - AlphabetSlack and MinAlphabet + AlphabetSlack symbols
AlphabetSlack == 2

\* field.py: len(self.alphabet) < 16
MinAlphabet == 16

Ids == {n * (MinAlphabet + 1) : n \in 0..MaxId}

----------------------------------------------------------------------------
(* Strings and configurations *)

None == <<0>>
Range(s) == {s[i] : i \in 1..Len(s)}

\* an alphabet of len symbols that cycles through `distinct` different ones
CyclicAlphabet(len, distinct) == [i \in 1..len |-> ((i - 1) % distinct) + 1]
Alphabets ==
    {CyclicAlphabet(l, d) : l \in (MinAlphabet - AlphabetSlack)..(MinAlphabet + AlphabetSlack),
                            d \in (MinAlphabet - AlphabetSlack)..(MinAlphabet + AlphabetSlack)}
DefaultAlphabet == CyclicAlphabet(MinAlphabet, MinAlphabet)

Salts == {None, <<>>, <<3>>}
Prefixes == {None, <<40, 41>>}
MinLengths == {0, 3}

Config(salt, min_length, alphabet, prefix) ==
    [salt |-> salt, min_length |-> min_length, alphabet |-> alphabet, prefix |-> prefix]
NoConfig == Config(<<>>, 0, <<>>, None)
\* the configuration of the model's other field
ForeignConfig == Config(<<5, 6>>, 0, DefaultAlphabet, None)

----------------------------------------------------------------------------
(* Python values *)

Value(kind, id, str, cfg) == [kind |-> kind, id |-> id, str |-> str, cfg |-> cfg]
PyNone == Value("none", 0, <<>>, NoConfig)
PyInt(n) == Value("int", n, <<>>, NoConfig)
PyStr(s) == Value("str", 0, s, NoConfig)
\* an instance of Hashid
Wrapped(n, cfg) == Value("hashid", n, <<>>, cfg)
\* no entry under a key of __dict__
Missing == Value("missing", 0, <<>>, NoConfig)

\* what a call does: return a value or raise
Return(v) == [exc |-> "", val |-> v]
Raise(e) == [exc |-> e, val |-> PyNone]

----------------------------------------------------------------------------
(* The reversible encoding the Hashid value type consumes *)

RECURSIVE Digits(_, _)
Digits(n, base) ==
    IF n < base THEN <<n>> ELSE Append(Digits(n \div base, base), n % base)

RECURSIVE Number(_, _)
Number(ds, base) ==
    IF ds = <<>> THEN 0 ELSE Number(SubSeq(ds, 1, Len(ds) - 1), base) * base + ds[Len(ds)]

SaltShift(salt) == IF salt = None \/ salt = <<>> THEN 0 ELSE Len(salt) + salt[1]
PrefixOf(cfg) == IF cfg.prefix = None THEN <<>> ELSE cfg.prefix
Guard(alphabet) == Len(alphabet) + 1

\* prefix, guards up to min_length, a lottery symbol chosen by n, then n's digits in
\* base Len(alphabet), each shifted by the salt and the lottery
Encode(n, cfg) ==
    LET L == Len(cfg.alphabet)
        lot == n % L
        ds == Digits(n, L)
        body == <<cfg.alphabet[lot + 1]>> \o
                [i \in 1..Len(ds) |-> cfg.alphabet[((ds[i] + SaltShift(cfg.salt) + lot) % L) + 1]]
        short == IF Len(body) < cfg.min_length THEN cfg.min_length - Len(body) ELSE 0
    IN PrefixOf(cfg) \o [i \in 1..short |-> Guard(cfg.alphabet)] \o body

RECURSIVE StripGuards(_, _)
StripGuards(s, g) ==
    IF s # <<>> /\ s[1] = g THEN StripGuards(Tail(s), g) ELSE s

IndexIn(alphabet, sym) == CHOOSE j \in 1..Len(alphabet) : alphabet[j] = sym

\* the id a string encodes under cfg, -1 when it encodes none
Decode(s, cfg) ==
    LET L == Len(cfg.alphabet)
        p == PrefixOf(cfg)
    IN IF Len(s) < Len(p) \/ SubSeq(s, 1, Len(p)) # p THEN -1
       ELSE LET body == StripGuards(SubSeq(s, Len(p) + 1, Len(s)), Guard(cfg.alphabet))
            IN IF Len(body) < 2 \/ \E i \in 1..Len(body) : body[i] \notin Range(cfg.alphabet)
               THEN -1
               ELSE LET lot == IndexIn(cfg.alphabet, body[1]) - 1
                        shift == SaltShift(cfg.salt) + lot
                        ds == [i \in 1..(Len(body) - 1) |->
                                  (IndexIn(cfg.alphabet, body[i + 1]) - 1 + L * (shift + 1) - shift) % L]
                        n == Number(ds, L)
                    IN IF Encode(n, cfg) = s THEN n ELSE -1

----------------------------------------------------------------------------
(* hashid.py: the Hashid value type *)

\* Hashid(value, salt=, min_length=, alphabet=, prefix=)
Hashid(value, cfg) ==
    CASE value.kind = "int" ->
            IF value.id >= 0 THEN Return(Wrapped(value.id, cfg)) ELSE Raise("ValueError")
      [] value.kind = "hashid" -> Return(Wrapped(value.id, cfg))
      [] value.kind = "str" ->
            IF Decode(value.str, cfg) >= 0
            THEN Return(Wrapped(Decode(value.str, cfg), cfg))
            ELSE Raise("ValueError")
      [] OTHER -> Raise("ValueError")

\* str(hashid)
HashidStr(h) == Encode(h.id, h.cfg)

\* value == '' in Python
EqualsEmptyString(value) ==
    \/ value.kind = "str" /\ value.str = <<>>
    \/ value.kind = "hashid" /\ HashidStr(value) = <<>>

----------------------------------------------------------------------------
(* descriptor.py: HashidDescriptor *)

Attnames == {"ref", "alt"}

\* HashidDescriptor.__init__
HashidDescriptor(name, salt, min_length, alphabet, prefix) ==
    [installed |-> TRUE, name |-> name, salt |-> salt, min_length |-> min_length,
     alphabet |-> alphabet, prefix |-> prefix]
\* a class attribute no descriptor was installed under
NoDescriptor ==
    [installed |-> FALSE, name |-> "", salt |-> <<>>, min_length |-> 0,
     alphabet |-> <<>>, prefix |-> None]

DescriptorConfig(d) == Config(d.salt, d.min_length, d.alphabet, d.prefix)

\* HashidDescriptor.__get__(instance, owner); dict is instance.__dict__, and
\* hasInstance is FALSE for an access on the class itself (instance is None)
DescriptorGet(d, hasInstance, dict) ==
    IF hasInstance /\ dict[d.name].kind # "missing"
    THEN Hashid(dict[d.name], DescriptorConfig(d))
    ELSE Return(PyNone)

\* __set__ without its except clause: a failed wrapping propagates
DescriptorSetNoFallback(d, dict, value) ==
    IF value.kind = "hashid" \/ value.kind = "none"
    THEN [exc |-> "", dict |-> [dict EXCEPT ![d.name] = value]]
    ELSE LET h == Hashid(value, DescriptorConfig(d))
         IN IF h.exc = ""
            THEN [exc |-> "", dict |-> [dict EXCEPT ![d.name] = h.val]]
            ELSE [exc |-> h.exc, dict |-> dict]

\* __set__ that stores whatever it is given
DescriptorSetUnwrapped(d, dict, value) ==
    [exc |-> "", dict |-> [dict EXCEPT ![d.name] = value]]

\* HashidDescriptor.__set__(instance, value): what the call does and the __dict__ it leaves
DescriptorSet(d, dict, value) ==
    IF value.kind = "hashid" \/ value.kind = "none"
    THEN [exc |-> "", dict |-> [dict EXCEPT ![d.name] = value]]
    ELSE LET h == Hashid(value, DescriptorConfig(d))
         IN IF h.exc = ""
            THEN [exc |-> "", dict |-> [dict EXCEPT ![d.name] = h.val]]
            ELSE IF h.exc = "ValueError"
                 THEN [exc |-> "", dict |-> [dict EXCEPT ![d.name] = value]]
                 ELSE [exc |-> h.exc, dict |-> dict]

----------------------------------------------------------------------------
(* field.py: HashidFieldMixin *)

FieldKinds == {"HashidField", "HashidAutoField", "PrimaryKeyHashidProxyField"}

\* HashidFieldMixin.__init__: the field object after construction
HashidFieldInit(kind, salt, min_length, alphabet, prefix, allow_int_lookup) ==
    [kind |-> kind, salt |-> salt, min_length |-> min_length, alphabet |-> alphabet,
     prefix |-> prefix, allow_int_lookup |-> allow_int_lookup,
     attname |-> "", column |-> "", virtual_only |-> FALSE, model |-> FALSE]

FieldConfig(f) == Config(f.salt, f.min_length, f.alphabet, f.prefix)

exact_lookups == {"exact", "iexact", "contains", "icontains"}
iterable_lookups == {"in"}
passthrough_lookups == {"isnull"}

\* the lookups the host ORM registers for an integer field
HostLookups ==
    {"exact", "iexact", "contains", "icontains", "in", "isnull", "gt", "gte", "lt", "lte",
     "startswith", "range"}
\* lookup names the host ORM registers nothing under
UnknownLookups == {"", "bogus"}
LookupNames == HostLookups \cup UnknownLookups
\* super().get_lookup(lookup_name): the host ORM's own resolution
HostGetLookup(lookup_name) ==
    IF lookup_name \in HostLookups THEN <<"host", lookup_name>> ELSE <<"None", "">>

\* get_lookup that hands every other name to the host ORM
get_lookup_fallthrough(lookup_name) ==
    IF lookup_name \in exact_lookups THEN <<"HashidLookup", "">>
    ELSE IF lookup_name \in iterable_lookups THEN <<"HashidIterableLookup", "">>
    ELSE HostGetLookup(lookup_name)

\* HashidFieldMixin.get_lookup
get_lookup(lookup_name) ==
    IF lookup_name \in exact_lookups THEN <<"HashidLookup", "">>
    ELSE IF lookup_name \in iterable_lookups THEN <<"HashidIterableLookup", "">>
    ELSE IF lookup_name \in passthrough_lookups THEN HostGetLookup(lookup_name)
    ELSE <<"None", "">>

Finding(level, id) == [level |-> level, id |-> id]

\* HashidFieldMixin._check_alphabet_min_length
_check_alphabet_min_length(f) ==
    IF Len(f.alphabet) < MinAlphabet THEN <<Finding("Error", "HashidField.E001")>> ELSE <<>>

\* _check_salt_is_set that tests for None alone
_check_salt_is_none_only(f) ==
    IF f.salt = None THEN <<Finding("Warning", "HashidField.W001")>> ELSE <<>>

\* HashidFieldMixin._check_salt_is_set
_check_salt_is_set(f) ==
    IF f.salt = None \/ f.salt = <<>> THEN <<Finding("Warning", "HashidField.W001")>> ELSE <<>>

\* super().check(): the host ORM's own findings about the field, none for these fields
HostCheck(f) == <<>>

\* HashidFieldMixin.check
check(f) == HostCheck(f) \o _check_alphabet_min_length(f) \o _check_salt_is_set(f)

\* HashidFieldMixin.encode_id
encode_id(f, id) == Hashid(id, FieldConfig(f))

\* HashidFieldMixin.from_db_value
from_db_value(f, value) == value

\* HashidFieldMixin.to_python
to_python(f, value) ==
    IF value.kind = "hashid" THEN Return(value)
    ELSE IF value.kind = "none" THEN Return(value)
    ELSE LET hashid == encode_id(f, value)
         IN IF hashid.exc = "ValueError" THEN Raise("ValidationError") ELSE hashid

\* get_prep_value that gives None for a value it cannot encode
get_prep_value_lenient(f, value) ==
    IF value.kind = "none" \/ EqualsEmptyString(value) THEN Return(PyNone)
    ELSE IF value.kind = "hashid" THEN Return(PyInt(value.id))
    ELSE LET hashid == encode_id(f, value)
         IN IF hashid.exc # "" THEN Return(PyNone) ELSE Return(PyInt(hashid.val.id))

\* get_prep_value that returns the Hashid it built instead of its id
get_prep_value_wrapped(f, value) ==
    IF value.kind = "none" \/ EqualsEmptyString(value) THEN Return(PyNone)
    ELSE IF value.kind = "hashid" THEN Return(PyInt(value.id))
    ELSE LET hashid == encode_id(f, value)
         IN IF hashid.exc = "ValueError" THEN Raise("ValueError") ELSE hashid

\* HashidFieldMixin.get_prep_value
get_prep_value(f, value) ==
    IF value.kind = "none" \/ EqualsEmptyString(value) THEN Return(PyNone)
    ELSE IF value.kind = "hashid" THEN Return(PyInt(value.id))
    ELSE LET hashid == encode_id(f, value)
         IN IF hashid.exc = "ValueError" THEN Raise("ValueError")
            ELSE IF hashid.exc # "" THEN hashid
            ELSE Return(PyInt(hashid.val.id))

----------------------------------------------------------------------------
(* field.py: contribute_to_class of the three field classes *)

\* the classes each field class inherits from, itself included
Bases(kind) ==
    CASE kind = "HashidField" -> {"HashidField", "HashidFieldMixin", "IntegerField"}
      [] kind = "HashidAutoField" -> {"HashidAutoField", "HashidFieldMixin", "AutoField"}
      [] kind = "PrimaryKeyHashidProxyField" ->
            {"PrimaryKeyHashidProxyField", "HashidFieldMixin", "IntegerField"}

\* the SimpleLazyObject before its first evaluation
Unevaluated == [evaluated |-> FALSE, value |-> ""]

\* the host ORM's Field.contribute_to_class: names the field, binds it to the model and
\* registers it, allocating a column unless the field is virtual
HostContribute(f, c, name, virtual_only) ==
    [exc |-> "",
     field |-> [f EXCEPT !.attname = name, !.column = name,
                         !.virtual_only = virtual_only, !.model = TRUE],
     cls |-> c.cls,
     columns |-> IF virtual_only THEN c.columns ELSE c.columns \cup {name},
     lazy |-> c.lazy]

\* what a failed call leaves: nothing changed
Failed(e, f, c) == [exc |-> e, field |-> f, cls |-> c.cls, columns |-> c.columns, lazy |-> c.lazy]

\* setattr(cls, self.attname, HashidDescriptor(self.attname, salt=..., ...))
InstallDescriptor(h) ==
    [h EXCEPT !.cls = [h.cls EXCEPT ![h.field.attname] =
        HashidDescriptor(h.field.attname, h.field.salt, h.field.min_length,
                         h.field.alphabet, h.field.prefix)]]

\* HashidField.contribute_to_class
HashidField_contribute_to_class(f, c, name) ==
    IF "HashidField" \notin Bases(f.kind) THEN Failed("TypeError", f, c)
    ELSE InstallDescriptor(HostContribute(f, c, name, FALSE))

\* HashidAutoField.contribute_to_class: super(HashidField, self)
HashidAutoField_contribute_to_class(f, c, name) ==
    IF "HashidField" \notin Bases(f.kind) THEN Failed("TypeError", f, c)
    ELSE InstallDescriptor(HostContribute(f, c, name, FALSE))

\* PrimaryKeyHashidProxyField.contribute_to_class
PrimaryKeyHashidProxyField_contribute_to_class(f, c, name) ==
    IF "PrimaryKeyHashidProxyField" \notin Bases(f.kind) THEN Failed("TypeError", f, c)
    ELSE LET h == InstallDescriptor(HostContribute(f, c, name, TRUE))
         IN [h EXCEPT !.field.column = "<lazy>", !.lazy = Unevaluated]

contribute_to_class(f, c, name) ==
    CASE f.kind = "HashidField" -> HashidField_contribute_to_class(f, c, name)
      [] f.kind = "HashidAutoField" -> HashidAutoField_contribute_to_class(f, c, name)
      [] f.kind = "PrimaryKeyHashidProxyField" ->
            PrimaryKeyHashidProxyField_contribute_to_class(f, c, name)

\* reading self.column: SimpleLazyObject(lambda: self.model._meta.pk.column) evaluates
\* its function on the first successful read and keeps what it returned
ColumnRead(f, lz, pkColumn) ==
    IF f.column # "<lazy>" THEN [exc |-> "", column |-> f.column, lazy |-> lz]
    ELSE IF lz.evaluated THEN [exc |-> "", column |-> lz.value, lazy |-> lz]
    ELSE IF pkColumn = "" THEN [exc |-> "AttributeError", column |-> "", lazy |-> lz]
    ELSE [exc |-> "", column |-> pkColumn, lazy |-> [evaluated |-> TRUE, value |-> pkColumn]]

----------------------------------------------------------------------------
(* The state machine *)

Outcome(op, name, arg, exc, val, lookup, findings, column) ==
    [op |-> op, name |-> name, arg |-> arg, exc |-> exc, val |-> val,
     lookup |-> lookup, findings |-> findings, column |-> column]
NoResult == Outcome("", "", PyNone, "", PyNone, <<"", "">>, <<>>, "")
ValueOutcome(op, name, arg, r) == Outcome(op, name, arg, r.exc, r.val, <<"", "">>, <<>>, "")

EmptyClass == [cls |-> [a \in Attnames |-> NoDescriptor], columns |-> {}, lazy |-> Unevaluated]
PkColumns == {"id", "uid"}

\* the configurations of the field whose instances the model follows
InstanceConfigs ==
    {Config(s, m, DefaultAlphabet, p) : s \in Salts \ {None}, m \in MinLengths, p \in Prefixes}

\* the values application code hands to the descriptor and to the field
Strings(cfg) == {Encode(n, c) : n \in Ids, c \in {cfg, ForeignConfig}} \cup {<<>>, <<99>>}
InputValues(cfg) ==
    {PyNone} \cup {PyInt(n) : n \in Ids \cup {-1}} \cup {PyStr(s) : s \in Strings(cfg)}
    \cup {Wrapped(n, c) : n \in Ids, c \in {cfg, ForeignConfig}}
\* the values assigned to the model's other field
OtherInputValues == {PyNone, PyInt(0), PyStr(<<99>>), Wrapped(0, ForeignConfig)}

\* a model class with the field installed as "ref" and another HashidField as "alt",
\* and a fresh instance of it
Init ==
    /\ \E cfg \in InstanceConfigs :
        LET f == HashidFieldInit("HashidField", cfg.salt, cfg.min_length, cfg.alphabet,
                                 cfg.prefix, FALSE)
            g == HashidFieldInit("HashidField", ForeignConfig.salt, ForeignConfig.min_length,
                                 ForeignConfig.alphabet, ForeignConfig.prefix, FALSE)
            c1 == contribute_to_class(f, EmptyClass, "ref")
            c2 == contribute_to_class(g, [cls |-> c1.cls, columns |-> c1.columns,
                                          lazy |-> c1.lazy], "alt")
        IN /\ field = c1.field
           /\ cls = c2.cls
           /\ columns = c2.columns
           /\ lazy = c2.lazy
    /\ pk = "id"
    /\ inst = [a \in Attnames |-> Missing]
    /\ written = [a \in Attnames |-> Missing]
    /\ result = NoResult

\* instance.<a> = v
Set(a, v) ==
    LET r == DescriptorSet(cls[a], inst, v)
    IN /\ inst' = r.dict
       /\ written' = IF r.exc = "" THEN [written EXCEPT ![a] = v] ELSE written
       /\ result' = Outcome("set", a, v, r.exc, PyNone, <<"", "">>, <<>>, "")
       /\ UNCHANGED <<field, cls, columns, pk, lazy>>

\* instance.<a>
Get(a) ==
    /\ result' = ValueOutcome("get", a, PyNone, DescriptorGet(cls[a], TRUE, inst))
    /\ UNCHANGED <<field, cls, columns, pk, lazy, inst, written>>

\* Model.<a>, the attribute read on the class
GetOnClass(a) ==
    /\ result' = ValueOutcome("class_get", a, PyNone, DescriptorGet(cls[a], FALSE, inst))
    /\ UNCHANGED <<field, cls, columns, pk, lazy, inst, written>>

ToPython(v) ==
    /\ result' = ValueOutcome("to_python", field.attname, v, to_python(field, v))
    /\ UNCHANGED <<field, cls, columns, pk, lazy, inst, written>>

GetPrepValue(v) ==
    /\ result' = ValueOutcome("get_prep_value", field.attname, v, get_prep_value(field, v))
    /\ UNCHANGED <<field, cls, columns, pk, lazy, inst, written>>

Next ==
    \/ \E v \in InputValues(FieldConfig(field)) : Set(field.attname, v)
    \/ \E a \in Attnames \ {field.attname}, v \in OtherInputValues : Set(a, v)
    \/ \E a \in Attnames : Get(a)
    \/ \E a \in Attnames : GetOnClass(a)
    \/ \E v \in InputValues(FieldConfig(field)) : ToPython(v)
    \/ \E v \in InputValues(FieldConfig(field)) : GetPrepValue(v)

Spec == Init /\ [][Next]_vars

----------------------------------------------------------------------------
(* Class definition time: a field is constructed, checked, asked for lookups and
   installed on a model class; the model's primary key is set up around it *)

InitClass ==
    /\ \E kind \in FieldKinds, salt \in Salts, alphabet \in Alphabets :
        field = HashidFieldInit(kind, salt, 0, alphabet, None, FALSE)
    /\ cls = EmptyClass.cls
    /\ columns = EmptyClass.columns
    /\ lazy = EmptyClass.lazy
    /\ pk = ""
    /\ inst = [a \in Attnames |-> Missing]
    /\ written = [a \in Attnames |-> Missing]
    /\ result = NoResult

Check ==
    /\ result' = Outcome("check", "", PyNone, "", PyNone, <<"", "">>, check(field), "")
    /\ UNCHANGED <<field, cls, columns, pk, lazy, inst, written>>

GetLookup(lookup_name) ==
    /\ result' = Outcome("get_lookup", lookup_name, PyNone, "", PyNone,
                         get_lookup(lookup_name), <<>>, "")
    /\ UNCHANGED <<field, cls, columns, pk, lazy, inst, written>>

\* the model class is being built: the field is added to it under name
ContributeToClass(name) ==
    /\ ~field.model
    /\ LET r == contribute_to_class(field, [cls |-> cls, columns |-> columns, lazy |-> lazy], name)
       IN /\ field' = r.field
          /\ cls' = r.cls
          /\ columns' = r.columns
          /\ lazy' = r.lazy
          /\ result' = Outcome("contribute_to_class", name, PyNone, r.exc, PyNone,
                               <<"", "">>, <<>>, "")
    /\ UNCHANGED <<pk, inst, written>>

\* field.column is read
ReadColumn ==
    /\ field.model
    /\ LET r == ColumnRead(field, lazy, pk)
       IN /\ lazy' = r.lazy
          /\ result' = Outcome("column", field.attname, PyNone, r.exc, PyNone,
                               <<"", "">>, <<>>, r.column)
    /\ UNCHANGED <<field, cls, columns, pk, inst, written>>

\* the model's primary key gets its column: it is set up, or its column is reassigned
SetPk(column) ==
    /\ column # pk
    /\ pk' = column
    /\ result' = Outcome("set_pk", column, PyNone, "", PyNone, <<"", "">>, <<>>, "")
    /\ UNCHANGED <<field, cls, columns, lazy, inst, written>>

NextClass ==
    \/ Check
    \/ \E lookup_name \in LookupNames : GetLookup(lookup_name)
    \/ \E name \in Attnames : ContributeToClass(name)
    \/ ReadColumn
    \/ \E column \in PkColumns : SetPk(column)

SpecClass == InitClass /\ [][NextClass]_vars

----------------------------------------------------------------------------
(* Properties *)

HasFinding(findings, level, id) ==
    \E i \in 1..Len(findings) : findings[i] = Finding(level, id)
HasFindingId(findings, id) ==
    \E i \in 1..Len(findings) : findings[i].id = id

\* a raw value (an integer or a string) that is neither a non-negative integer nor a
\* hashid string decodable under cfg
BadValue(v, cfg) ==
    \/ v.kind = "int" /\ v.id < 0
    \/ v.kind = "str" /\ Decode(v.str, cfg) < 0

\* the values that stand for id n under cfg: n itself, the hashid string encoding n
\* under cfg, and any wrapped value for n
StandsFor(v, n, cfg) ==
    \/ v = PyInt(n)
    \/ v = PyStr(Encode(n, cfg))
    \/ v.kind = "hashid" /\ v.id = n

\* C1: an attribute write through the descriptor never raises, and a value that is
\* neither wrapped nor None and whose wrapping fails is stored as it was given.
C1_SetNeverRaises ==
    result.op = "set" =>
        /\ result.exc = ""
        /\ (/\ result.arg.kind \notin {"hashid", "none"}
            /\ Hashid(result.arg, DescriptorConfig(cls[result.name])).exc # "")
           => inst[result.name] = result.arg

C1_Witness ==
    /\ result.op = "set"
    /\ result.exc = ""
    /\ result.arg.kind = "str"
    /\ BadValue(result.arg, DescriptorConfig(cls[result.name]))
    /\ inst[result.name] = result.arg

\* C2 as stated: to_python and get_prep_value raise for every raw value that is neither
\* a non-negative integer nor a hashid string decodable under the field's configuration.
C2_BadValueAlwaysRaises ==
    (/\ result.op \in {"to_python", "get_prep_value"}
     /\ BadValue(result.arg, FieldConfig(field)))
    => result.exc # ""

\* C2 amended: for such a value to_python raises ValidationError and get_prep_value
\* raises ValueError, neither returning a value, except that get_prep_value gives None
\* for the empty string; so too for a bad value an assignment stored before.
C2_BadValueRaisesUnlessEmpty ==
    BadValue(result.arg, FieldConfig(field)) =>
        /\ result.op = "to_python" =>
              result.exc = "ValidationError" /\ result.val = PyNone
        /\ (result.op = "get_prep_value" /\ result.arg # PyStr(<<>>)) =>
              result.exc = "ValueError" /\ result.val = PyNone
        /\ (result.op = "get_prep_value" /\ result.arg = PyStr(<<>>)) =>
              result.exc = "" /\ result.val = PyNone

C2_Witness ==
    /\ result.op = "get_prep_value"
    /\ result.arg.kind = "str"
    /\ result.arg # PyStr(<<>>)
    /\ BadValue(result.arg, FieldConfig(field))
    /\ written[field.attname] = result.arg
    /\ inst[field.attname] = result.arg
    /\ result.exc = "ValueError"

\* C3: an attribute read returns a Hashid carrying the descriptor's configuration when
\* a value is stored on the instance and None when none is, and never raises.
C3_ReadWrapsOrAbsent ==
    result.op = "get" =>
        /\ result.exc = ""
        /\ IF inst[result.name].kind # "missing"
           THEN /\ result.val.kind = "hashid"
                /\ result.val.cfg = DescriptorConfig(cls[result.name])
           ELSE result.val = PyNone

\* C4: every entry of the instance reflects its own last write: after n, the hashid
\* string encoding n or a wrapped value for n was written, a wrapped value with id n
\* is stored and a read returns a wrapped value with id n; a wrapped value and None are
\* stored as given; an attribute never written has no entry.
C4_WriteNormalizes ==
    /\ \A a \in Attnames :
        /\ \A n \in Ids :
              StandsFor(written[a], n, DescriptorConfig(cls[a])) =>
                  inst[a].kind = "hashid" /\ inst[a].id = n
        /\ written[a].kind \in {"hashid", "none", "missing"} => inst[a] = written[a]
    /\ \A n \in Ids :
          (/\ result.op = "get"
           /\ StandsFor(written[result.name], n, DescriptorConfig(cls[result.name])))
          => /\ result.exc = ""
             /\ result.val.kind = "hashid"
             /\ result.val.id = n

C4_Witness ==
    /\ result.op = "get"
    /\ \E n \in Ids \ {0} :
          /\ written[result.name] = PyStr(Encode(n, DescriptorConfig(cls[result.name])))
          /\ result.val.kind = "hashid"
          /\ result.val.id = n
    /\ \E a \in Attnames \ {result.name} : inst[a].kind = "hashid"

\* C5: 'exact', 'iexact', 'contains' and 'icontains' resolve to HashidLookup, 'in' to
\* HashidIterableLookup, 'isnull' to the host ORM's own lookup, every other name to None.
C5_LookupPartition ==
    result.op = "get_lookup" =>
        result.lookup =
            CASE result.name \in {"exact", "iexact", "contains", "icontains"} ->
                    <<"HashidLookup", "">>
              [] result.name = "in" -> <<"HashidIterableLookup", "">>
              [] result.name = "isnull" -> <<"host", "isnull">>
              [] OTHER -> <<"None", "">>

C5_Witness ==
    /\ result.op = "get_lookup"
    /\ result.name = "gt"
    /\ result.lookup = <<"None", "">>

\* C6: check() reports HashidField.E001 exactly for the alphabets with fewer than 16
\* distinct characters.
C6_DistinctAlphabetChecked ==
    result.op = "check" =>
        (HasFinding(result.findings, "Error", "HashidField.E001")
            <=> Cardinality(Range(field.alphabet)) < MinAlphabet)

\* C7: an installed proxy field has no storage column of its own, and its column reads
\* as the column of the model's primary key whenever that has one.
C7_ProxyColumnFollowsPk ==
    (field.kind = "PrimaryKeyHashidProxyField" /\ field.model) =>
        /\ field.attname \notin columns
        /\ (result.op = "column" /\ pk # "") =>
              result.exc = "" /\ result.column = pk

\* C8: installing a HashidAutoField completes without error and installs, under the
\* field's attribute name, a descriptor with the field's configuration, as installing a
\* HashidField does.
C8_AutoFieldInstallsLikePlain ==
    (/\ result.op = "contribute_to_class"
     /\ field.kind \in {"HashidField", "HashidAutoField"})
    => /\ result.exc = ""
       /\ field.attname = result.name
       /\ cls[result.name] = HashidDescriptor(result.name, field.salt, field.min_length,
                                              field.alphabet, field.prefix)

\* C9: get_prep_value returns an integer or None: None for None and the empty string,
\* a wrapped value's id, n for n and for the hashid string encoding n; and it gives
\* the same for to_python(v) as for v whenever to_python accepts v.
C9_PrepValueIsPlain ==
    /\ result.op = "get_prep_value" =>
        /\ result.exc = "" => result.val.kind \in {"int", "none"}
        /\ result.arg \in {PyNone, PyStr(<<>>)} => result.exc = "" /\ result.val = PyNone
        /\ result.arg.kind = "hashid" => result.exc = "" /\ result.val = PyInt(result.arg.id)
        /\ \A n \in Ids :
              result.arg \in {PyInt(n), PyStr(Encode(n, FieldConfig(field)))}
              => result.exc = "" /\ result.val = PyInt(n)
    /\ (result.op = "to_python" /\ result.exc = "") =>
          get_prep_value(field, result.val) = get_prep_value(field, result.arg)

C9_Witness ==
    /\ result.op = "get_prep_value"
    /\ \E n \in Ids \ {0} :
          /\ result.arg = PyStr(Encode(n, FieldConfig(field)))
          /\ result.val = PyInt(n)
    /\ field.prefix # None

\* C10: check() reports the warning HashidField.W001 exactly when the salt is None or
\* empty, whatever the alphabet, and reports no error on account of the salt.
C10_SaltWarning ==
    result.op = "check" =>
        /\ HasFinding(result.findings, "Warning", "HashidField.W001")
              <=> field.salt \in {None, <<>>}
        /\ \A i \in 1..Len(result.findings) :
              /\ result.findings[i].id = "HashidField.W001"
                    => result.findings[i].level = "Warning"
              /\ result.findings[i].level = "Error"
                    => result.findings[i].id = "HashidField.E001"
        /\ HasFindingId(result.findings, "HashidField.E001")
              <=> HasFindingId(check([field EXCEPT !.salt = <<3>>]), "HashidField.E001")

C10_Witness ==
    /\ result.op = "check"
    /\ field.salt = <<>>
    /\ HasFinding(result.findings, "Warning", "HashidField.W001")
    /\ HasFinding(result.findings, "Error", "HashidField.E001")

====
